---- MODULE Spec2Model ----
(***************************************************************************)
(* Model of scripts/test-capabilities.py: the capability prober of the     *)
(* VGI-RPC website.  test_all_capabilities walks LANGUAGES; for each        *)
(* implementation it clones or pulls the repository, reads the version,    *)
(* builds the worker and calls probe_capabilities, which runs the probe    *)
(* script in a child interpreter with a 60 second budget and folds the     *)
(* JSON it prints into the all-False patterns/features dictionaries.       *)
(*                                                                         *)
(* Python dictionaries are functions whose DOMAIN is the key set, so that  *)
(* a missing or an extra key is visible.  None is the record               *)
(* [none |-> TRUE]; a present value v is [none |-> FALSE, val |-> v].      *)
(***************************************************************************)
EXTENDS Integers, Sequences, FiniteSets, TLC

VARIABLES
    missing,        \* environment: executables that cannot be found on PATH
    pyenv,          \* environment: what starting sys.executable does
    tpc,            \* test_all_capabilities: position
    li,             \* test_all_capabilities: index of the for loop in LangOrder
    languages,      \* test_all_capabilities: result["languages"]
    version,        \* test_all_capabilities: local version
    worker_cmd,     \* argument worker_cmd of probe_capabilities
    ppc,            \* probe_capabilities: position
    patterns,       \* probe_capabilities: local patterns
    features,       \* probe_capabilities: local features
    proc,           \* probe_capabilities: outcome of subprocess.run
    spc,            \* probe script: position
    results,        \* probe script: local results
    inflight,       \* probe script: remote call awaiting the worker ("" when none)
    worker,         \* the worker under test: its answer to each call
    workerRunning,  \* the worker process spawned by connect is alive
    calls,          \* history: remote calls issued in this run, in order
    started,        \* history: catalog keys whose probe block was entered
    run,            \* driver of two probe runs: number of the current run
    first           \* driver of two probe runs: what the first run returned

vars == <<missing, pyenv, tpc, li, languages, version, worker_cmd, ppc,
          patterns, features, proc, spc, results, inflight, worker,
          workerRunning, calls, started, run, first>>

----------------------------------------------------------------------------
(* Bounds of the model                                                     *)

\* largest number of executables missing from PATH at once
MaxMissing == 1
\* largest number of items a count_stream answer yields
MaxItems == 4

----------------------------------------------------------------------------
(* Python values                                                           *)

None == [none |-> TRUE]
Some(v) == [none |-> FALSE, val |-> v]

\* truth value of an optional list: None and [] are falsy
Truthy(c) == (~c.none) /\ Len(c.val) > 0

EmptyDict == [k \in {} |-> FALSE]

\* d[k] = v
SetKey(d, k, v) == [x \in (DOMAIN d) \cup {k} |-> IF x = k THEN v ELSE d[x]]

\* d.update(u)
DictUpdate(d, u) ==
    [x \in (DOMAIN d) \cup (DOMAIN u) |-> IF x \in DOMAIN u THEN u[x] ELSE d[x]]

\* d.get(k, default)
DictGet(d, k, default) == IF k \in DOMAIN d THEN d[k] ELSE default

Abs(x) == IF x < 0 THEN -x ELSE x

\* "needle in hay" on strings held as sequences of characters
Contains(hay, needle) ==
    \E i \in 0..(Len(hay) - Len(needle)) :
        \A j \in 1..Len(needle) : hay[i + j] = needle[j]

IsSpace(c) == c \in {" ", "\n", "\t"}

RECURSIVE LStrip(_)
LStrip(s) == IF s # <<>> /\ IsSpace(Head(s)) THEN LStrip(Tail(s)) ELSE s

RECURSIVE RStrip(_)
RStrip(s) ==
    IF s # <<>> /\ IsSpace(s[Len(s)]) THEN RStrip(SubSeq(s, 1, Len(s) - 1)) ELSE s

\* str.strip() on a string held as a sequence of characters
Strip(s) == RStrip(LStrip(s))

\* json.dumps / json.loads: only a text that is one JSON document decodes
JsonDumps(d) == [kind |-> "json", data |-> d]
JsonDecodes(s) == s.kind = "json"
JsonLoads(s) == s.data
Garbage == [kind |-> "text"]

----------------------------------------------------------------------------
(* Configuration                                                           *)

LANGUAGES ==
    [python |->
        [repo |-> "https://github.com/Query-farm/vgi-rpc-python",
         docs |-> Some("https://vgi-rpc-python.query.farm"),
         package_url |-> Some("https://pypi.org/project/vgi-rpc/"),
         build_cmd |-> Some(<<"uv", "sync", "--all-extras">>),
         worker_cmd |-> Some(<<"uv", "run", "python", "-m",
                               "vgi_rpc.conformance.worker">>),
         version_cmd |-> Some(<<"uv", "run", "python", "-c",
                                "import vgi_rpc; print(vgi_rpc.__version__)">>),
         known_transports |->
            [pipe |-> TRUE, subprocess |-> TRUE, unix_socket |-> TRUE,
             shared_memory |-> TRUE, http |-> TRUE, worker_pool |-> TRUE]],
     typescript |->
        [repo |-> "https://github.com/Query-farm/vgi-rpc-ts",
         docs |-> None,
         package_url |-> None,
         build_cmd |-> Some(<<"bun", "install">>),
         worker_cmd |-> Some(<<"bun", "run", "src/conformance/worker.ts">>),
         version_cmd |-> Some(<<"bun", "run", "-e",
            "const pkg = require('./package.json'); console.log(pkg.version)">>),
         known_transports |->
            [pipe |-> FALSE, subprocess |-> TRUE, unix_socket |-> FALSE,
             shared_memory |-> FALSE, http |-> FALSE, worker_pool |-> FALSE]],
     go |->
        [repo |-> "https://github.com/Query-farm/vgi-rpc-go",
         docs |-> None,
         package_url |-> None,
         build_cmd |-> Some(<<"go", "build", "./...">>),
         worker_cmd |-> Some(<<"go", "run", "./cmd/conformance-worker">>),
         version_cmd |-> None,
         known_transports |->
            [pipe |-> FALSE, subprocess |-> TRUE, unix_socket |-> FALSE,
             shared_memory |-> FALSE, http |-> FALSE, worker_pool |-> FALSE]],
     cpp |->
        [repo |-> "https://github.com/Query-farm/vgi-rpc-cpp",
         docs |-> None,
         package_url |-> None,
         build_cmd |-> None,
         worker_cmd |-> None,
         version_cmd |-> None,
         known_transports |->
            [pipe |-> FALSE, subprocess |-> FALSE, unix_socket |-> FALSE,
             shared_memory |-> FALSE, http |-> FALSE, worker_pool |-> FALSE]]]

\* iteration order of LANGUAGES.items()
LangOrder == <<"python", "typescript", "go", "cpp">>

PATTERNS == <<"unary", "unary_void", "producer", "producer_with_header",
              "exchange", "exchange_with_header">>

FEATURES == <<"introspection", "client_logging", "error_propagation",
              "complex_types", "optional_types", "dataclass_types",
              "annotated_types", "authentication", "external_storage",
              "opentelemetry">>

Range(s) == {s[i] : i \in 1..Len(s)}

\* a zero dictionary built from the keys the probe script writes
ZeroPatternsProbedOnly ==
    [p \in {"unary", "unary_void", "producer", "exchange"} |-> FALSE]

\* one dictionary object shared by all calls: a later call starts from what
\* the call before it returned
ZeroPatternsShared ==
    IF first.none THEN [p \in Range(PATTERNS) |-> FALSE] ELSE first.val.patterns

\* {p: False for p in PATTERNS}
ZeroPatterns == [p \in Range(PATTERNS) |-> FALSE]

\* a default that reports support when nothing was probed
ZeroFeaturesFailOpen == [f \in Range(FEATURES) |-> TRUE]

\* {f: False for f in FEATURES}
ZeroFeatures == [f \in Range(FEATURES) |-> FALSE]

\* the executable a command starts
Exe(cmd) == cmd.val[1]

\* executables the configuration and clone_or_pull start
Tools == {"git", "uv", "bun", "go"}

----------------------------------------------------------------------------
(* The worker under test                                                   *)
(*                                                                         *)
(* A worker is described by the answer it gives to each call the probe     *)
(* script makes.  An answer returns a value, raises on the caller's side,  *)
(* or never arrives (hang).  Numbers a worker returns from add are held    *)
(* in units of 1/10000, so that 3.0 is 30000 and the tolerance 0.001 is    *)
(* 10.  Exception type names are sequences of characters.                  *)

RpcErrorName == <<"R", "p", "c", "E", "r", "r", "o", "r">>
RemoteRpcErrorName == <<"R", "e", "m", "o", "t", "e">> \o RpcErrorName
ProtocolErrorName == <<"P", "r", "o", "t", "o", "c", "o", "l", "E", "r", "r", "o", "r">>

Methods == {"connect", "add", "void_method", "introspect", "raise_error",
            "echo_list", "echo_optional", "count_stream"}

Unset == [kind |-> "unset"]
Hang == [kind |-> "hang"]
Raise(name) == [kind |-> "raise", exc |-> name]
Return(v) == [kind |-> "return", val |-> v]
Malformed == [kind |-> "malformed"]
Stream(n, e) == [kind |-> "stream", items |-> n, end |-> e]

\* every answer a worker can give to a call
Responses(m) ==
    CASE m = "connect" -> {[kind |-> "ok"], Raise(ProtocolErrorName), Hang}
      [] m = "add" -> {Return(v) : v \in {30000, 30005, 30010}}
                        \cup {Malformed, Raise(RpcErrorName), Hang}
      [] m = "void_method" -> {Return(0), Raise(RpcErrorName), Hang}
      [] m = "introspect" -> {Return(0), Return(2), Raise(RpcErrorName), Hang}
      [] m = "raise_error" ->
            {Return(0), Raise(RpcErrorName), Raise(RemoteRpcErrorName),
             Raise(ProtocolErrorName), Hang}
      [] m = "echo_list" ->
            {Return(<<1, 2, 3>>), Return(<<1, 2>>), Raise(RpcErrorName), Hang}
      [] m = "echo_optional" ->
            {Return(None), Return(Some(0)), Raise(RpcErrorName), Hang}
      [] m = "count_stream" ->
            {Stream(n, "ok") : n \in 2..MaxItems}
                \cup {Stream(3, "raise"), Hang}

\* the answers the worker under test can give to call m in this run
Answers(m) == IF worker[m].kind = "unset" THEN Responses(m) ELSE {worker[m]}

NoWorker == [m \in Methods |-> Unset]

\* a worker that implements the whole conformance service
Conformant ==
    [m \in Methods |->
        CASE m = "connect" -> [kind |-> "ok"]
          [] m = "add" -> Return(30000)
          [] m = "void_method" -> Return(0)
          [] m = "introspect" -> Return(2)
          [] m = "raise_error" -> Raise(RpcErrorName)
          [] m = "echo_list" -> Return(<<1, 2, 3>>)
          [] m = "echo_optional" -> Return(None)
          [] m = "count_stream" -> Stream(3, "ok")]

\* workers that test_all_capabilities meets
Profiles ==
    {Conformant,
     [Conformant EXCEPT !["connect"] = Raise(ProtocolErrorName)],
     [Conformant EXCEPT !["echo_list"] = Hang],
     [Conformant EXCEPT !["add"] = Return(30010),
                        !["raise_error"] = Return(0),
                        !["count_stream"] = Stream(2, "ok")]}

----------------------------------------------------------------------------
(* The probe script: what each probe block stores for an answer            *)

\* abs(r - 3.0) < 0.001; a non-number raises TypeError inside the try
UnaryResult(r) == IF r.kind = "return" THEN Abs(r.val - 30000) < 10 ELSE FALSE

UnaryVoidResult(r) == r.kind = "return"

\* len(desc.methods) > 0
IntrospectionResult(r) == IF r.kind = "return" THEN r.val > 0 ELSE FALSE

\* False when the call returns, else "RpcError" in type(e).__name__
ErrorPropagationResult(r) ==
    IF r.kind = "raise" THEN Contains(r.exc, RpcErrorName) ELSE FALSE

\* r == [1, 2, 3]
ComplexTypesResult(r) == IF r.kind = "return" THEN r.val = <<1, 2, 3>> ELSE FALSE

\* r is None
OptionalTypesResult(r) == IF r.kind = "return" THEN r.val.none ELSE FALSE

\* count >= 3 in place of count == 3
ProducerResultAtLeast(r) ==
    IF r.kind = "stream" /\ r.end = "ok" THEN r.items >= 3 ELSE FALSE

\* count == 3 after the for loop; an exception in the loop stores False
ProducerResult(r) ==
    IF r.kind = "stream" /\ r.end = "ok" THEN r.items = 3 ELSE FALSE

\* exchange reported by the first run of the process only
ExchangeResultOnce == first.none

\* results["patterns"]["exchange"] = True
ExchangeResult == TRUE

SetPattern(k, v) == [results EXCEPT !.patterns = SetKey(results.patterns, k, v)]
SetFeature(k, v) == [results EXCEPT !.features = SetKey(results.features, k, v)]

----------------------------------------------------------------------------
(* probe_capabilities                                                      *)

\* what starting sys.executable with the probe script does
PyEnvs == {"ok", "no_vgi_rpc", "missing", "exit_nonzero", "garbage"}

NoResults == [patterns |-> EmptyDict, features |-> EmptyDict]

\* the locals of the probe script and the histories of one run
ScriptReset ==
    /\ results' = NoResults
    /\ inflight' = ""
    /\ workerRunning' = FALSE
    /\ calls' = <<>>
    /\ started' = <<>>

ScriptIdle == UNCHANGED <<results, inflight, workerRunning, calls, started>>

TestAllIdle == UNCHANGED <<missing, pyenv, tpc, li, languages, version>>

DriverIdle == UNCHANGED <<run, first>>

\* probe_capabilities up to subprocess.run: the zero dictionaries, the early
\* return for a falsy worker_cmd, and the start of the child interpreter
ProbeCapabilitiesCall ==
    /\ ppc = "start"
    /\ patterns' = ZeroPatterns
    /\ features' = ZeroFeatures
    /\ ScriptReset
    /\ IF ~Truthy(worker_cmd)
         THEN /\ ppc' = "returned"
              /\ UNCHANGED <<proc, spc>>
         ELSE CASE pyenv = "missing" ->
                     /\ proc' = [exc |-> "FileNotFoundError"]
                     /\ ppc' = "collect"
                     /\ UNCHANGED spc
                [] pyenv = "exit_nonzero" ->
                     /\ proc' = [rc |-> 1, stdout |-> Garbage]
                     /\ ppc' = "collect"
                     /\ UNCHANGED spc
                [] pyenv = "garbage" ->
                     /\ proc' = [rc |-> 0, stdout |-> Garbage]
                     /\ ppc' = "collect"
                     /\ UNCHANGED spc
                [] OTHER ->
                     /\ spc' = "import"
                     /\ ppc' = "waiting"
                     /\ UNCHANGED proc
    /\ UNCHANGED <<worker_cmd, worker>>
    /\ TestAllIdle /\ DriverIdle

\* the except branch of the script: print the error document and exit 0
ScriptFails ==
    /\ proc' = [rc |-> 0,
                stdout |-> JsonDumps([error |-> "error", patterns |-> EmptyDict,
                                      features |-> EmptyDict])]
    /\ spc' = "exited"
    /\ ppc' = "collect"

\* the imports and the empty results of the script
ScriptImport ==
    /\ ppc = "waiting" /\ spc = "import"
    /\ IF pyenv = "no_vgi_rpc"
         THEN ScriptFails /\ UNCHANGED results
         ELSE /\ results' = NoResults
              /\ spc' = "connect"
              /\ UNCHANGED <<proc, ppc>>
    /\ UNCHANGED <<worker_cmd, patterns, features, inflight, worker,
                   workerRunning, calls, started>>
    /\ TestAllIdle /\ DriverIdle

\* connect(ConformanceService, worker_cmd): spawn the worker
ScriptConnect ==
    /\ ppc = "waiting" /\ spc = "connect" /\ inflight = ""
    /\ IF Exe(worker_cmd) \in missing
         THEN ScriptFails /\ UNCHANGED <<inflight, workerRunning>>
         ELSE /\ inflight' = "connect"
              /\ workerRunning' = TRUE
              /\ UNCHANGED <<proc, spc, ppc>>
    /\ UNCHANGED <<worker_cmd, patterns, features, results, worker, calls, started>>
    /\ TestAllIdle /\ DriverIdle

\* connect returns the proxy or raises
ScriptConnectDone ==
    /\ ppc = "waiting" /\ spc = "connect" /\ inflight = "connect"
    /\ \E r \in Answers("connect") :
        /\ r.kind # "hang"
        /\ worker' = [worker EXCEPT !["connect"] = r]
        /\ inflight' = ""
        /\ IF r.kind = "ok"
             THEN /\ spc' = "unary"
                  /\ UNCHANGED <<proc, ppc, workerRunning>>
             ELSE /\ ScriptFails
                  /\ workerRunning' = FALSE
    /\ UNCHANGED <<worker_cmd, patterns, features, results, calls, started>>
    /\ TestAllIdle /\ DriverIdle

\* a probe block that issues its call without waiting for the call in flight
IssueUnawaited(at, key, m) ==
    /\ ppc = "waiting" /\ spc = at
    /\ inflight' = m
    /\ calls' = Append(calls, m)
    /\ started' = Append(started, key)
    /\ UNCHANGED <<worker_cmd, ppc, patterns, features, proc, spc, results,
                   worker, workerRunning>>
    /\ TestAllIdle /\ DriverIdle

\* a probe block enters its try and issues its remote call
Issue(at, key, m) ==
    /\ ppc = "waiting" /\ spc = at /\ inflight = ""
    /\ inflight' = m
    /\ calls' = Append(calls, m)
    /\ started' = Append(started, key)
    /\ UNCHANGED <<worker_cmd, ppc, patterns, features, proc, spc, results,
                   worker, workerRunning>>
    /\ TestAllIdle /\ DriverIdle

\* the worker answers the call in flight and the probe block stores its key
Done(at, m, r, res, next) ==
    /\ ppc = "waiting" /\ spc = at /\ inflight = m
    /\ r.kind # "hang"
    /\ worker' = [worker EXCEPT ![m] = r]
    /\ inflight' = ""
    /\ results' = res
    /\ spc' = next
    /\ UNCHANGED <<worker_cmd, ppc, patterns, features, proc, workerRunning,
                   calls, started>>
    /\ TestAllIdle /\ DriverIdle

ScriptUnary == Issue("unary", "unary", "add")
ScriptUnaryDone ==
    \E r \in Answers("add") :
        Done("unary", "add", r, SetPattern("unary", UnaryResult(r)), "unary_void")

ScriptUnaryVoid == Issue("unary_void", "unary_void", "void_method")
ScriptUnaryVoidDone ==
    \E r \in Answers("void_method") :
        Done("unary_void", "void_method", r,
             SetPattern("unary_void", UnaryVoidResult(r)), "introspection")

ScriptIntrospection == Issue("introspection", "introspection", "introspect")
ScriptIntrospectionDone ==
    \E r \in Answers("introspect") :
        Done("introspection", "introspect", r,
             SetFeature("introspection", IntrospectionResult(r)),
             "error_propagation")

ScriptErrorPropagation ==
    Issue("error_propagation", "error_propagation", "raise_error")
ScriptErrorPropagationDone ==
    \E r \in Answers("raise_error") :
        Done("error_propagation", "raise_error", r,
             SetFeature("error_propagation", ErrorPropagationResult(r)),
             "complex_types")

ScriptComplexTypes == Issue("complex_types", "complex_types", "echo_list")
ScriptComplexTypesDone ==
    \E r \in Answers("echo_list") :
        Done("complex_types", "echo_list", r,
             SetFeature("complex_types", ComplexTypesResult(r)), "optional_types")

ScriptOptionalTypes == Issue("optional_types", "optional_types", "echo_optional")
ScriptOptionalTypesDone ==
    \E r \in Answers("echo_optional") :
        Done("optional_types", "echo_optional", r,
             SetFeature("optional_types", OptionalTypesResult(r)), "producer")

ScriptProducer == Issue("producer", "producer", "count_stream")
ScriptProducerDone ==
    \E r \in Answers("count_stream") :
        Done("producer", "count_stream", r,
             SetPattern("producer", ProducerResult(r)), "exchange")

\* the exchange block: no remote call
ScriptExchange ==
    /\ ppc = "waiting" /\ spc = "exchange" /\ inflight = ""
    /\ started' = Append(started, "exchange")
    /\ results' = SetPattern("exchange", ExchangeResult)
    /\ spc' = "close"
    /\ UNCHANGED <<worker_cmd, ppc, patterns, features, proc, inflight, worker,
                   workerRunning, calls>>
    /\ TestAllIdle /\ DriverIdle

\* the end of the with block and print(json.dumps(results))
ScriptClose ==
    /\ ppc = "waiting" /\ spc = "close"
    /\ workerRunning' = FALSE
    /\ proc' = [rc |-> 0, stdout |-> JsonDumps(results)]
    /\ spc' = "exited"
    /\ ppc' = "collect"
    /\ UNCHANGED <<worker_cmd, patterns, features, results, inflight, worker,
                   calls, started>>
    /\ TestAllIdle /\ DriverIdle

\* subprocess.run without timeout=60
SubprocessNeverTimesOut == FALSE /\ UNCHANGED vars

\* the worker never answers the call in flight: subprocess.run kills the
\* child interpreter after timeout=60 and raises TimeoutExpired.  The worker
\* is a grandchild: it is not signalled, and it stops only if it notices
\* that its pipes were closed.
SubprocessTimeout ==
    /\ ppc = "waiting" /\ inflight # ""
    /\ Hang \in Answers(inflight)
    /\ worker' = [worker EXCEPT ![inflight] = Hang]
    /\ proc' = [exc |-> "TimeoutExpired"]
    /\ spc' = "killed"
    /\ ppc' = "collect"
    /\ workerRunning' \in {workerRunning, FALSE}
    /\ UNCHANGED <<worker_cmd, patterns, features, results, inflight, calls,
                   started>>
    /\ TestAllIdle /\ DriverIdle

\* the handling of the outcome of subprocess.run, and the return
ProbeCapabilitiesCollect ==
    /\ ppc = "collect"
    /\ IF "exc" \in DOMAIN proc
         THEN UNCHANGED <<patterns, features>>
         ELSE IF proc.rc = 0
                THEN IF JsonDecodes(proc.stdout)
                       THEN LET data == JsonLoads(proc.stdout) IN
                            /\ patterns' =
                                 DictUpdate(patterns,
                                            DictGet(data, "patterns", EmptyDict))
                            /\ features' =
                                 DictUpdate(features,
                                            DictGet(data, "features", EmptyDict))
                       ELSE UNCHANGED <<patterns, features>>
                ELSE UNCHANGED <<patterns, features>>
    /\ ppc' = "returned"
    /\ UNCHANGED <<worker_cmd, proc, spc, worker>>
    /\ ScriptIdle /\ TestAllIdle /\ DriverIdle

ScriptStep ==
    \/ ScriptImport
    \/ ScriptConnect
    \/ ScriptConnectDone
    \/ ScriptUnary
    \/ ScriptUnaryDone
    \/ ScriptUnaryVoid
    \/ ScriptUnaryVoidDone
    \/ ScriptIntrospection
    \/ ScriptIntrospectionDone
    \/ ScriptErrorPropagation
    \/ ScriptErrorPropagationDone
    \/ ScriptComplexTypes
    \/ ScriptComplexTypesDone
    \/ ScriptOptionalTypes
    \/ ScriptOptionalTypesDone
    \/ ScriptProducer
    \/ ScriptProducerDone
    \/ ScriptExchange
    \/ ScriptClose

ProbeStep ==
    \/ ProbeCapabilitiesCall
    \/ ScriptStep
    \/ SubprocessTimeout
    \/ ProbeCapabilitiesCollect

----------------------------------------------------------------------------
(* test_all_capabilities                                                   *)

\* what a version command prints when it exits 0
VersionStdouts == {<<"1", ".", "2", "\n">>, <<"\n">>}

\* outcomes of a subprocess.run that found its executable
RunOutcomes ==
    {[kind |-> "exit", rc |-> 0], [kind |-> "exit", rc |-> 1],
     [kind |-> "timeout"]}

\* get_version falling back to the text "unknown" where it returns None
GetVersionUnknown(config, out, text) ==
    IF Truthy(config.version_cmd) /\ Exe(config.version_cmd) \notin missing
         /\ out.kind = "exit" /\ out.rc = 0
      THEN Some(Strip(text))
      ELSE Some(<<"u", "n", "k", "n", "o", "w", "n">>)

\* get_version; out is the outcome of subprocess.run when the executable of
\* version_cmd is found, text what it printed
GetVersion(config, out, text) ==
    IF ~Truthy(config.version_cmd)
      THEN None
      ELSE IF Exe(config.version_cmd) \in missing
             THEN None
             ELSE IF out.kind = "exit" /\ out.rc = 0
                    THEN Some(Strip(text))
                    ELSE None

\* build_worker returning True from its except branch
BuildWorkerMissingOk(config, out) ==
    IF ~Truthy(config.build_cmd)
      THEN FALSE
      ELSE IF Exe(config.build_cmd) \in missing
             THEN TRUE
             ELSE out.kind = "exit" /\ out.rc = 0

\* build_worker; out is the outcome of subprocess.run when the executable of
\* build_cmd is found
BuildWorker(config, out) ==
    IF ~Truthy(config.build_cmd)
      THEN FALSE
      ELSE IF Exe(config.build_cmd) \in missing
             THEN FALSE
             ELSE out.kind = "exit" /\ out.rc = 0

\* a record whose subprocess transport is taken from the probe of unary
RecordProbedTransport(config, ver, pats, feats) ==
    [version |-> ver,
     repo |-> config.repo,
     docs |-> config.docs,
     package_url |-> config.package_url,
     transports |-> [config.known_transports EXCEPT !.subprocess = pats["unary"]],
     patterns |-> pats,
     features |-> feats]

\* the record stored for an implementation
Record(config, ver, pats, feats) ==
    [version |-> ver,
     repo |-> config.repo,
     docs |-> config.docs,
     package_url |-> config.package_url,
     transports |-> config.known_transports,
     patterns |-> pats,
     features |-> feats]

ProbeIdle ==
    UNCHANGED <<ppc, patterns, features, proc, spc, results, inflight, worker,
                workerRunning, calls, started>>

\* top of the for loop: clone_or_pull, and the record of an implementation
\* whose repository could not be cloned.  git that cannot be started raises
\* FileNotFoundError, which nothing catches.
TestAllCloneOrPull ==
    /\ tpc = "loop" /\ li <= Len(LangOrder)
    /\ LET lang == LangOrder[li]
           config == LANGUAGES[lang]
       IN  IF "git" \in missing
             THEN /\ tpc' = "crashed"
                  /\ UNCHANGED <<li, languages>>
             ELSE \E exists \in BOOLEAN, rc \in {0, 1} :
                    LET cloned == rc = 0
                        existsAfter == exists \/ cloned
                    IN  IF ~cloned /\ ~existsAfter
                          THEN /\ languages' =
                                    SetKey(languages, lang,
                                           Record(config, None, ZeroPatterns,
                                                  ZeroFeatures))
                               /\ li' = li + 1
                               /\ UNCHANGED tpc
                          ELSE /\ tpc' = "version"
                               /\ UNCHANGED <<li, languages>>
    /\ UNCHANGED <<missing, pyenv, version, worker_cmd>>
    /\ ProbeIdle /\ DriverIdle

TestAllGetVersion ==
    /\ tpc = "version"
    /\ \E out \in RunOutcomes, text \in VersionStdouts :
            version' = GetVersion(LANGUAGES[LangOrder[li]], out, text)
    /\ tpc' = "build"
    /\ UNCHANGED <<missing, pyenv, li, languages, worker_cmd>>
    /\ ProbeIdle /\ DriverIdle

\* the build, the choice of worker_cmd, and the call of probe_capabilities
\* against whatever worker the repository holds
TestAllBuild ==
    /\ tpc = "build"
    /\ LET config == LANGUAGES[LangOrder[li]] IN
       \E out \in RunOutcomes :
            worker_cmd' = IF Truthy(config.build_cmd) /\ ~BuildWorker(config, out)
                            THEN None
                            ELSE config.worker_cmd
    /\ worker' \in IF Truthy(worker_cmd') THEN Profiles ELSE {NoWorker}
    /\ tpc' = "probe"
    /\ ppc' = "start"
    /\ UNCHANGED <<missing, pyenv, li, languages, version, patterns, features,
                   proc, spc, results, inflight, workerRunning, calls, started>>
    /\ DriverIdle

\* the record of a probed implementation, and the next iteration
TestAllStore ==
    /\ tpc = "probe" /\ ppc = "returned"
    /\ languages' = SetKey(languages, LangOrder[li],
                           Record(LANGUAGES[LangOrder[li]], version, patterns,
                                  features))
    /\ li' = li + 1
    /\ tpc' = "loop"
    /\ ppc' = "idle"
    /\ version' = None
    /\ worker_cmd' = None
    /\ patterns' = EmptyDict
    /\ features' = EmptyDict
    /\ proc' = None
    /\ spc' = "off"
    /\ worker' = NoWorker
    /\ ScriptReset
    /\ UNCHANGED <<missing, pyenv>>
    /\ DriverIdle

TestAllReturn ==
    /\ tpc = "loop" /\ li > Len(LangOrder)
    /\ tpc' = "returned"
    /\ UNCHANGED <<missing, pyenv, li, languages, version, worker_cmd>>
    /\ ProbeIdle /\ DriverIdle

----------------------------------------------------------------------------
(* Two probe runs against one worker                                       *)

\* worker commands probe_capabilities is called with
WorkerCmds == {None, Some(<<>>), LANGUAGES.python.worker_cmd}

\* the calls the probe blocks make
ProbeMethods == Methods \ {"connect"}

\* an answer that is a fault of the call: it raises, never arrives or is
\* malformed.  raise_error is meant to raise an RpcError; its fault is an
\* error of another kind.
IsFault(m, r) ==
    \/ r.kind \in {"hang", "malformed"}
    \/ r.kind = "raise" /\ (m # "raise_error" \/ ~Contains(r.exc, RpcErrorName))
    \/ r.kind = "stream" /\ r.end # "ok"

IsNormal(m, r) == r.kind # "unset" /\ ~IsFault(m, r)

\* the second run: the same worker, or the same worker with one call that
\* answered normally now failing
DriverSecondRun ==
    /\ tpc = "off" /\ run = 1 /\ ppc = "returned"
    /\ first' = Some([patterns |-> patterns, features |-> features,
                      worker |-> worker])
    /\ run' = 2
    /\ ppc' = "start"
    /\ \/ worker' = worker
       \/ \E m \in ProbeMethods :
            /\ IsNormal(m, worker[m])
            /\ \E f \in Responses(m) :
                /\ IsFault(m, f)
                /\ worker' = [worker EXCEPT ![m] = f]
    /\ UNCHANGED <<worker_cmd, patterns, features, proc, spc, results, inflight,
                   workerRunning, calls, started>>
    /\ TestAllIdle

----------------------------------------------------------------------------
(* Specifications                                                          *)

EnvInit(tools) ==
    /\ missing \in {s \in SUBSET tools : Cardinality(s) <= MaxMissing}
    /\ pyenv \in PyEnvs

LocalsInit ==
    /\ languages = EmptyDict
    /\ version = None
    /\ patterns = EmptyDict
    /\ features = EmptyDict
    /\ proc = None
    /\ spc = "off"
    /\ results = NoResults
    /\ inflight = ""
    /\ worker = NoWorker
    /\ workerRunning = FALSE
    /\ calls = <<>>
    /\ started = <<>>
    /\ first = None

\* test_all_capabilities is called once
Init ==
    /\ EnvInit(Tools)
    /\ tpc = "loop"
    /\ li = 1
    /\ worker_cmd = None
    /\ ppc = "idle"
    /\ run = 0
    /\ LocalsInit

Next ==
    \/ TestAllCloneOrPull
    \/ TestAllGetVersion
    \/ TestAllBuild
    \/ ProbeStep
    \/ TestAllStore
    \/ TestAllReturn

Spec == Init /\ [][Next]_vars

\* probe_capabilities is called twice with the same arguments
InitProbe ==
    /\ EnvInit({Exe(LANGUAGES.python.worker_cmd)})
    /\ tpc = "off"
    /\ li = 0
    /\ worker_cmd \in WorkerCmds
    /\ ppc = "start"
    /\ run = 1
    /\ LocalsInit

NextProbe ==
    \/ ProbeStep
    \/ DriverSecondRun

SpecProbe == InitProbe /\ [][NextProbe]_vars

----------------------------------------------------------------------------
(* Properties                                                              *)

\* probe_capabilities has returned and its result is in patterns, features
Returned == ppc = "returned"

\* the probe script ran in this call of probe_capabilities
ScriptRan == spc \in {"exited", "killed"}

\* the session of this run was opened
SessionOpened == ScriptRan /\ worker["connect"].kind = "ok"

\* d has exactly the keys of catalog and every one of them is False
AllFalse(d, catalog) == DOMAIN d = Range(catalog) /\ \A k \in DOMAIN d : ~d[k]

\* C1: whatever the worker command and whatever the probe subprocess did,
\* the patterns and features probe_capabilities returns, and those of every
\* record stored under languages, have exactly the keys of PATTERNS and of
\* FEATURES.
C1_KeysExact ==
    /\ Returned => /\ DOMAIN patterns = Range(PATTERNS)
                   /\ DOMAIN features = Range(FEATURES)
    /\ \A l \in DOMAIN languages :
        /\ DOMAIN languages[l].patterns = Range(PATTERNS)
        /\ DOMAIN languages[l].features = Range(FEATURES)

\* a probed record is stored beside the result of a run whose script printed
\* only the keys it probes
C1_Witness ==
    /\ Returned /\ spc = "exited" /\ SessionOpened
    /\ patterns["unary"]
    /\ languages # EmptyDict

\* the catalog key a probe call decides
KeyOf(m) ==
    CASE m = "add" -> "unary"
      [] m = "void_method" -> "unary_void"
      [] m = "introspect" -> "introspection"
      [] m = "raise_error" -> "error_propagation"
      [] m = "echo_list" -> "complex_types"
      [] m = "echo_optional" -> "optional_types"
      [] m = "count_stream" -> "producer"

\* patterns and features as one mapping over the catalog
Merged(pats, feats) ==
    [k \in (DOMAIN pats) \cup (DOMAIN feats) |->
        IF k \in DOMAIN pats THEN pats[k] ELSE feats[k]]

\* the second run used the worker of the first run, except that call m, which
\* answered normally in the first run, is a fault in the second
DeviatesAt(m) ==
    /\ run = 2
    /\ IsNormal(m, first.val.worker[m])
    /\ IsFault(m, worker[m])
    /\ \A o \in Methods \ {m} : worker[o] = first.val.worker[o]

\* C2: fault isolation.  When the call of one probe raises, hangs or returns
\* malformed data in the second run and every other answer is as in the
\* first run, the second result has False for that probe's key and every
\* other key has the value it had in the first result.
C2_FaultIsolation ==
    \A m \in ProbeMethods :
        (Returned /\ DeviatesAt(m)) =>
            LET now == Merged(patterns, features)
                before == Merged(first.val.patterns, first.val.features)
            IN  /\ ~now[KeyOf(m)]
                /\ \A k \in (DOMAIN now) \ {KeyOf(m)} : now[k] = before[k]

\* C3: when connect fails before any probe starts (the worker cannot be
\* started, or the session is not opened), no probe is invoked and the
\* patterns and features returned are all False.
C3_ConnectFailureZero ==
    (Returned /\ ScriptRan /\ pyenv = "ok"
        /\ (Exe(worker_cmd) \in missing \/ worker["connect"].kind # "ok"))
    => /\ calls = <<>>
       /\ started = <<>>
       /\ AllFalse(patterns, PATTERNS)
       /\ AllFalse(features, FEATURES)

\* connect was attempted, the handshake raised, and the run has returned
C3_Witness ==
    /\ Returned /\ spc = "exited" /\ pyenv = "ok"
    /\ worker["connect"].kind = "raise"
    /\ proc.rc = 0

\* implementations whose worker command names an executable that is missing
LaunchMissing ==
    {l \in DOMAIN LANGUAGES :
        /\ Truthy(LANGUAGES[l].worker_cmd)
        /\ Exe(LANGUAGES[l].worker_cmd) \in missing}

\* C4: the record stored for an implementation whose worker command names a
\* missing executable is the zero record: all patterns False, all features
\* False, version None, whatever clone or pull, the version command and the
\* build did.
C4_MissingLauncherZeroRecord ==
    \A l \in LaunchMissing \cap DOMAIN languages :
        /\ languages[l].version = None
        /\ AllFalse(languages[l].patterns, PATTERNS)
        /\ AllFalse(languages[l].features, FEATURES)

\* the pass has returned and an implementation with a version command had
\* its launcher missing
C4_Witness ==
    /\ tpc = "returned"
    /\ \E l \in LaunchMissing \cap DOMAIN languages :
            Truthy(LANGUAGES[l].version_cmd)

\* C5: test_all_capabilities returns for every combination of stage
\* outcomes, and languages then holds a record for every key of LANGUAGES;
\* no failure while handling one implementation ends the pass.
C5_AlwaysAllRecords ==
    /\ tpc # "crashed"
    /\ tpc = "returned" => DOMAIN languages = DOMAIN LANGUAGES

\* the remote call whose checked answer stands behind a pattern key
PatternCall ==
    [unary |-> "add", unary_void |-> "void_method", producer |-> "count_stream"]

\* the answer the worker gave to m in this run passes the check of its probe
AnswerPasses(m) ==
    CASE m = "add" -> UnaryResult(worker[m])
      [] m = "void_method" -> UnaryVoidResult(worker[m])
      [] m = "count_stream" -> ProducerResult(worker[m])

\* C6: a patterns key is True in the returned result only if its call was
\* issued to the worker in that run and the answer matched the expected
\* output; this includes exchange.
C6_TrueOnlyIfChecked ==
    Returned =>
        \A k \in DOMAIN patterns :
            patterns[k] =>
                /\ k \in DOMAIN PatternCall
                /\ PatternCall[k] \in Range(calls)
                /\ AnswerPasses(PatternCall[k])

C8_ErrorPropagationScenario ==
    (Returned /\ "raise_error" \in Range(calls)) =>
        LET r == worker["raise_error"] IN
        /\ (r.kind = "raise" /\ Contains(r.exc, RpcErrorName))
                => features["error_propagation"]
        /\ (r.kind = "return" \/ (r.kind = "raise" /\ ~Contains(r.exc, RpcErrorName)))
                => ~features["error_propagation"]

\* C9: two runs of probe_capabilities against the same worker, giving the
\* same answers, return the same patterns and the same features.
C9_Idempotent ==
    (Returned /\ run = 2 /\ worker = first.val.worker) =>
        /\ patterns = first.val.patterns
        /\ features = first.val.features

\* the second run against an unchanged worker returned a result with a
\* supported and an unsupported probed key
C9_Witness ==
    /\ Returned /\ run = 2 /\ worker = first.val.worker
    /\ SessionOpened
    /\ patterns["exchange"]
    /\ ~patterns["unary"]

\* number of times key k occurs in history h
RECURSIVE Count(_, _)
Count(h, k) ==
    IF h = <<>> THEN 0
    ELSE (IF Head(h) = k THEN 1 ELSE 0) + Count(Tail(h), k)

\* C10: in a run whose session opened, each of the 6 PATTERNS keys and each
\* of the 10 FEATURES keys has its probe invoked exactly once.
C10_EveryProbeOnce ==
    (Returned /\ SessionOpened) =>
        \A k \in Range(PATTERNS) \cup Range(FEATURES) : Count(started, k) = 1

\* the catalog: PATTERNS followed by FEATURES
Catalog == PATTERNS \o FEATURES

IndexOf(seq, k) == CHOOSE i \in 1..Len(seq) : seq[i] = k

\* the probe blocks of the script in the order of its text
ScriptOrder == <<"unary", "unary_void", "introspection", "error_propagation",
                 "complex_types", "optional_types", "producer", "exchange">>

IsPrefix(p, q) == Len(p) <= Len(q) /\ SubSeq(q, 1, Len(p)) = p

\* a remote call is issued only when no call is in flight
NoInterleaving == Len(calls') > Len(calls) => inflight = ""

\* the call in flight was issued last, by the probe block entered last
OutstandingIsLatest ==
    inflight \notin {"", "connect"} =>
        /\ calls # <<>> /\ calls[Len(calls)] = inflight
        /\ started # <<>> /\ started[Len(started)] = KeyOf(inflight)

\* C11 as claimed: probes start in the order of PATTERNS followed by
\* FEATURES, and the only call outstanding is that of the probe started last.
C11_CatalogOrder ==
    /\ \A i, j \in 1..Len(started) :
            i < j => IndexOf(Catalog, started[i]) < IndexOf(Catalog, started[j])
    /\ OutstandingIsLatest

\* C11 amended: probes start in the order of the script's text (unary,
\* unary_void, introspection, error_propagation, complex_types,
\* optional_types, producer, exchange), and no call of a probe is issued
\* while a call is outstanding.
C11_ScriptOrder ==
    /\ [](IsPrefix(started, ScriptOrder) /\ OutstandingIsLatest)
    /\ [][NoInterleaving]_vars

\* a run went through all probe blocks, each call answered before the next
C11_Witness ==
    /\ Returned /\ spc = "exited"
    /\ started = ScriptOrder
    /\ Len(calls) = 7

\* subprocess.run did not deliver a decodable document of a script that ended:
\* it raised, the child exited non-zero, or its output does not decode
Interrupted ==
    \/ "exc" \in DOMAIN proc
    \/ "rc" \in DOMAIN proc /\ (proc.rc # 0 \/ ~JsonDecodes(proc.stdout))

\* the script went through all its probe blocks and printed its results
BatteryAttempted ==
    /\ spc = "exited"
    /\ started = ScriptOrder
    /\ "rc" \in DOMAIN proc /\ proc.rc = 0 /\ JsonDecodes(proc.stdout)

\* C12: the result of probe_capabilities is either that of a run that went
\* through the whole battery of the script, or all False; after a timeout,
\* a non-zero exit or undecodable output no key is True.
C12_NeverPartial ==
    Returned =>
        /\ BatteryAttempted
             \/ (AllFalse(patterns, PATTERNS) /\ AllFalse(features, FEATURES))
        /\ Interrupted =>
             (AllFalse(patterns, PATTERNS) /\ AllFalse(features, FEATURES))

\* a run was cut by the timeout after the unary probe had passed
C12_Witness ==
    /\ Returned /\ spc = "killed"
    /\ "unary" \in DOMAIN results.patterns
    /\ results.patterns["unary"]
    /\ Len(started) >= 3
    /\ AllFalse(patterns, PATTERNS)

----------------------------------------------------------------------------
(* One call of probe_capabilities, run to its end                          *)

\* workers that answer as they please, and workers that will never answer
\* one given call
HangingWorkers == {NoWorker} \cup {[NoWorker EXCEPT ![m] = Hang] : m \in Methods}

InitRun ==
    /\ EnvInit({Exe(LANGUAGES.python.worker_cmd)})
    /\ tpc = "off"
    /\ li = 0
    /\ worker_cmd \in WorkerCmds
    /\ ppc = "start"
    /\ run = 1
    /\ languages = EmptyDict
    /\ version = None
    /\ patterns = EmptyDict
    /\ features = EmptyDict
    /\ proc = None
    /\ spc = "off"
    /\ results = NoResults
    /\ inflight = ""
    /\ worker \in HangingWorkers
    /\ workerRunning = FALSE
    /\ calls = <<>>
    /\ started = <<>>
    /\ first = None

\* the interpreter, the script and the timer of subprocess.run keep going:
\* a step that stays possible is taken
SpecRun == InitRun /\ [][ProbeStep]_vars /\ WF_vars(ProbeStep)

\* C13: probe_capabilities returns whatever the worker does, also when the
\* worker never answers a call or never ends a stream, and after a timeout
\* every key whose probe was not attempted is False.
C13_BoundedRun ==
    /\ (ppc # "returned") ~> (ppc = "returned")
    /\ [](Returned /\ spc = "killed" =>
            \A k \in Range(Catalog) \ Range(started) :
                ~Merged(patterns, features)[k])

\* the timeout ended a run in which some probes had been attempted and
\* others had not
C13_Witness ==
    /\ Returned /\ spc = "killed"
    /\ "TimeoutExpired" \in {proc[f] : f \in DOMAIN proc \cap {"exc"}}
    /\ started # <<>>
    /\ Len(started) < Len(ScriptOrder)

\* C14: once probe_capabilities has returned, on every exit path, the worker
\* process spawned for the run is no longer running.
C14_WorkerTornDown == Returned => ~workerRunning

\* C15: in every record test_all_capabilities stores, on the skip path and
\* on the probed path, transports is the known_transports the configuration
\* declares for that implementation.
C15_TransportsAsDeclared ==
    \A l \in DOMAIN languages :
        languages[l].transports = LANGUAGES[l].known_transports

\* the pass has returned with a record whose probes passed and a record that
\* is all False although it declares a transport
C15_Witness ==
    /\ tpc = "returned"
    /\ \E l \in DOMAIN languages : languages[l].patterns["unary"]
    /\ \E l \in DOMAIN languages :
        /\ AllFalse(languages[l].patterns, PATTERNS)
        /\ languages[l].transports.subprocess

\* probe_capabilities is being called for the current implementation with
\* worker_cmd None: its build failed, or it declares no worker command
NoLaunch == tpc = "probe" /\ worker_cmd.none

\* the build tool of the current implementation cannot be started
BuildToolMissing ==
    /\ tpc = "probe"
    /\ Truthy(LANGUAGES[LangOrder[li]].build_cmd)
    /\ Exe(LANGUAGES[LangOrder[li]].build_cmd) \in missing

C16_Step ==
    /\ BuildToolMissing => worker_cmd.none
    /\ NoLaunch =>
        /\ spc' = "off"
        /\ proc' = None
        /\ ~workerRunning'
        /\ calls' = <<>>
    /\ (NoLaunch /\ tpc' = "loop") =>
        /\ languages'[LangOrder[li]].version = version
        /\ AllFalse(languages'[LangOrder[li]].patterns, PATTERNS)
        /\ AllFalse(languages'[LangOrder[li]].features, FEATURES)
    /\ (tpc \in {"build", "probe"} /\ tpc' \in {"build", "probe"}) =>
        version' = version

====
